---- MODULE Spec2Model ----
(***************************************************************************)
(* Model of minidl (src/src/lib.rs): the Library handle, Library::load,    *)
(* Library::from_handle, sym / sym_opt / has_sym, sym_by_ordinal /         *)
(* sym_opt_by_ordinal, on the unix (dlopen/dlsym/dlerror) and the windows  *)
(* (LoadLibraryW/GetProcAddress/GetLastError) backends.                    *)
(*                                                                         *)
(* Strings are sequences of units.  The unit "NUL" is the byte 0, "a" is   *)
(* an ordinary character, "nl" is a character that Rust's Debug formatting *)
(* escapes (a newline), "ill" is an ill-formed unit of an OS string that   *)
(* Path::display() shows as the replacement character "FFFD".              *)
(***************************************************************************)
EXTENDS Integers, Sequences, FiniteSets, TLC

VARIABLES backend, arch, mapped, libs, slot, lastErr, lastOp, symFirst,
          halted, pc, tpath, thandle, tread, tresult

vars == <<backend, arch, mapped, libs, slot, lastErr, lastOp, symFirst,
          halted, pc, tpath, thandle, tread, tresult>>

(***************************************************************************)
(* Bounds of the model.                                                    *)
(***************************************************************************)
MaxNameLen == 2

NThreads == 2

(***************************************************************************)
(* Program constants.                                                      *)
(***************************************************************************)
ERROR_BAD_EXE_FORMAT == 193

ERROR_MOD_NOT_FOUND == 126

ERROR_ACCESS_DENIED == 5

ERROR_PROC_NOT_FOUND == 127

ERROR_SUCCESS == 0

RTLD_LAZY == 1

U16Max == 65535

NULL == <<"null">>

NoErr == <<>>

Threads == 1..NThreads

Backends == {"unix", "windows"}

Archs == {"x86", "x86_64", "aarch64"}

\* size_of::<*mut c_void>() of the running process
PtrSize(a) == IF a = "x86" THEN 4 ELSE 8

PtrBits(a) == IF a = "x86" THEN "32" ELSE "64"

OtherBits(b) == IF b = "32" THEN "64" ELSE "32"

(***************************************************************************)
(* Strings.                                                                *)
(***************************************************************************)
NameUnits == {"NUL", "a", "nl"}

RECURSIVE SeqsUpTo(_, _)
SeqsUpTo(S, n) ==
    IF n = 0 THEN {<<>>}
    ELSE LET shorter == SeqsUpTo(S, n - 1)
         IN  shorter \cup {Append(s, u) : s \in {x \in shorter : Len(x) = n - 1}, u \in S}

Names == SeqsUpTo(NameUnits, MaxNameLen)

\* the C string the OS reads from a buffer: the units before the first NUL
RECURSIVE CStr(_)
CStr(buf) ==
    IF buf = <<>> \/ Head(buf) = "NUL" THEN <<>>
    ELSE <<Head(buf)>> \o CStr(Tail(buf))

\* str::contains('\0')
HasNul(s) == \E i \in 1..Len(s) : s[i] = "NUL"

\* str::ends_with('\0')
EndsWithNul(s) == Len(s) > 0 /\ s[Len(s)] = "NUL"

\* &name[..name.len()-1]
DropLast(s) == SubSeq(s, 1, Len(s) - 1)

\* needle occurs in hay as a contiguous run
Contains(hay, needle) ==
    \E i \in 0..(Len(hay) - Len(needle)) :
        SubSeq(hay, i + 1, i + Len(needle)) = needle

\* format!("{:?}", s): quoted, with the characters Debug escapes escaped
RECURSIVE EscapeDebug(_)
EscapeDebug(s) ==
    IF s = <<>> THEN <<>>
    ELSE (IF Head(s) = "nl" THEN <<"BACKSLASH", "n">>
          ELSE IF Head(s) = "NUL" THEN <<"BACKSLASH", "0">>
          ELSE <<Head(s)>>) \o EscapeDebug(Tail(s))

FormatDebug(s) == <<"QUOTE">> \o EscapeDebug(s) \o <<"QUOTE">>

\* path.display(): lossy, ill-formed units become U+FFFD
RECURSIVE Display(_)
Display(p) ==
    IF p = <<>> THEN <<>>
    ELSE <<IF Head(p) = "ill" THEN "FFFD" ELSE Head(p)>> \o Display(Tail(p))

(***************************************************************************)
(* The file system and the libraries on it.                                *)
(***************************************************************************)
FileA == <<"A">>

FileW == <<"W">>

FileX == <<"X">>

\* what the OS loader finds under a file name
DiskKind(f) ==
    IF f = FileA THEN "native"
    ELSE IF f = FileW THEN "otherwidth"
    ELSE IF f = FileX THEN "corrupt"
    ELSE "missing"

Paths == {FileA, FileW, FileX, <<"M">>, <<"ill">>, <<"A", "NUL", "M">>}

\* the handle value the OS loader gives a mapped image (one per image)
HandleOf(f) == <<"h", f>>

NativeFiles == {FileA}

RawHandles == {NULL} \cup {HandleOf(f) : f \in NativeFiles}

\* exported names of a library, as C strings
Exports(f) ==
    IF f = FileA THEN {<<"a">>} ELSE {}

\* exported ordinals of a library (windows)
ExportOrdinals(f) ==
    IF f = FileA THEN {1} ELSE {}

Ordinals == {0, 1, U16Max}

\* address of an export; never null
AddrOf(f, key) == <<"addr", f, key>>

OrdinalAddrOf(f, ordinal) == <<"addr", f, "@", ordinal>>

WildAddr == <<"addr", "wild", "wild", "wild", "wild">>

(***************************************************************************)
(* The operating system's loader.  Each call yields the set of outcomes    *)
(* the platform can produce.                                               *)
(***************************************************************************)
\* the text dlerror() reports for a failed dlopen of file f
DlopenErrorText(f) ==
    f \o <<": ", IF DiskKind(f) = "otherwidth" THEN "wrong ELF class"
                 ELSE IF DiskKind(f) = "corrupt" THEN "invalid ELF header"
                 ELSE "cannot open shared object file">>

\* the text a failed dlsym leaves behind; no code of the library reads it
DlsymErrorText(c) == <<"undefined symbol">>

\* dlerror(): returns the slot and clears it
dlerror(s) == [ret |-> s, slot |-> NoErr]

\* a dl* call that succeeds may keep or reset the pending error
SlotAfterSuccess(s) == {s, NoErr}

\* dlopen(filename, flags): filename is read up to its first NUL
dlopen(buf, flags, m, s) ==
    LET f == CStr(buf) IN
    IF DiskKind(f) = "native" /\ flags = RTLD_LAZY
    THEN {[handle |-> HandleOf(f), mapped |-> m \cup {f}, slot |-> s2] :
              s2 \in SlotAfterSuccess(s)}
    ELSE {[handle |-> NULL, mapped |-> m, slot |-> DlopenErrorText(f)]}

\* the mapped image a handle value refers to, if any
ImagesOf(h, m) == {f \in m : HandleOf(f) = h}

\* dlsym(handle, symbol): symbol is read up to its first NUL; a handle that
\* is not a mapped image is undefined behaviour of the loader
dlsym(h, buf, m, s) ==
    LET c == CStr(buf) IN
    IF ImagesOf(h, m) = {}
    THEN {[addr |-> a, slot |-> s2] : a \in {NULL, WildAddr}, s2 \in {s, DlsymErrorText(c)}}
    ELSE LET f == CHOOSE g \in ImagesOf(h, m) : TRUE IN
         IF c \in Exports(f)
         THEN {[addr |-> AddrOf(f, c), slot |-> s2] : s2 \in SlotAfterSuccess(s)}
         ELSE {[addr |-> NULL, slot |-> DlsymErrorText(c)]}

\* LoadLibraryW(lpFileName): sets the thread's last error on failure
LoadLibraryW(buf, m, e) ==
    LET f == CStr(buf) IN
    IF DiskKind(f) = "native"
    THEN [handle |-> HandleOf(f), mapped |-> m \cup {f}, err |-> e]
    ELSE [handle |-> NULL, mapped |-> m,
          err |-> IF DiskKind(f) = "otherwidth" THEN ERROR_BAD_EXE_FORMAT
                  ELSE IF DiskKind(f) = "corrupt" THEN ERROR_ACCESS_DENIED
                  ELSE ERROR_MOD_NOT_FOUND]

\* GetProcAddress(hModule, lpProcName) with a name or with an ordinal in
\* the low word
GetProcAddress(h, key, byOrdinal, m, e) ==
    IF ImagesOf(h, m) = {}
    THEN {[addr |-> a, err |-> e2] : a \in {NULL, WildAddr}, e2 \in {e, ERROR_PROC_NOT_FOUND}}
    ELSE LET f == CHOOSE g \in ImagesOf(h, m) : TRUE
             found == IF byOrdinal THEN key \in ExportOrdinals(f)
                      ELSE CStr(key) \in Exports(f)
         IN  IF found
             THEN {[addr |-> IF byOrdinal THEN OrdinalAddrOf(f, key)
                             ELSE AddrOf(f, CStr(key)),
                    err |-> e]}
             ELSE {[addr |-> NULL, err |-> ERROR_PROC_NOT_FOUND]}

(***************************************************************************)
(* Results of the library's operations.                                    *)
(***************************************************************************)
Res(tag, val, kind, msg) == [tag |-> tag, val |-> val, kind |-> kind, msg |-> msg]

Ok(h) == Res("Ok", h, "-", <<>>)

Some(v) == Res("Some", v, "-", <<>>)

None == Res("None", NULL, "-", <<>>)

Err(kind, msg) == Res("Err", NULL, kind, msg)

Panic(msg) == Res("Panic", NULL, "-", <<msg>>)

Bool(b) == Res(IF b THEN "true" ELSE "false", NULL, "-", <<>>)

NoRes == Res("-", NULL, "-", <<>>)

(***************************************************************************)
(* Library::load                                                           *)
(***************************************************************************)
\* path bytes / wide units chained with a terminating 0
FileNameBuf(path) == path \o <<"NUL">>

\* variant: the pending error is not cleared before dlopen
ClearError_Skipped(s) == s

\* let _ = unsafe { dlerror() }; // clear error code
ClearError(s) == dlerror(s).slot

\* CStr::from_ptr(p).to_string_lossy(): a null p is undefined behaviour
CStrFromPtr(ret) == IF ret = NoErr THEN {<<"crash">>, <<"garbage">>} ELSE {ret}

Crash == Res("Crash", NULL, "-", <<>>)

\* the error of a failed load on unix
UnixLoadError(text) == IF text = <<"crash">> THEN Crash ELSE Err("Other", text)

ThisBits(a) == IF a = "x86_64" THEN "64" ELSE "32"

ThatBits(a) == IF a = "x86_64" THEN "32" ELSE "64"

BadExeFormatMessage(path, that, this) ==
    <<"Unable to load ">> \o Display(path)
      \o <<": ERROR_BAD_EXE_FORMAT (likely tried to load a ", that,
           "-bit DLL into this ", this, "-bit process)">>

NotFoundMessage(path) == <<"Unable to load ">> \o Display(path) \o <<": NotFound">>

\* Error::last_os_error()
LastOsError(code) == Err("Os", <<"os error ", ToString(code)>>)

\* variant: the ERROR_MOD_NOT_FOUND arm is missing
WindowsLoadError_NoNotFound(path, code, a) ==
    IF code = ERROR_BAD_EXE_FORMAT
    THEN Err("Other", BadExeFormatMessage(path, ThatBits(a), ThisBits(a)))
    ELSE LastOsError(code)

\* the error of a failed load on windows
WindowsLoadError(path, code, a) ==
    IF code = ERROR_BAD_EXE_FORMAT
    THEN Err("Other", BadExeFormatMessage(path, ThatBits(a), ThisBits(a)))
    ELSE IF code = ERROR_MOD_NOT_FOUND
    THEN Err("NotFound", NotFoundMessage(path))
    ELSE LastOsError(code)

\* the outcomes of load(path) in a state with mapped set m, dlerror slot s
\* and last-error code e
LoadOutcomes(path, be, a, m, s, e) ==
    IF be = "windows"
    THEN LET o == LoadLibraryW(FileNameBuf(path), m, e) IN
         {[res |-> IF o.handle # NULL THEN Ok(o.handle)
                   ELSE WindowsLoadError(path, o.err, a),
           osHandle |-> o.handle, mapped |-> o.mapped, slot |-> s,
           err |-> o.err, cleared |-> TRUE]}
    ELSE LET s1 == ClearError(s) IN
         UNION {
           IF o.handle # NULL
           THEN {[res |-> Ok(o.handle), osHandle |-> o.handle,
                  mapped |-> o.mapped, slot |-> o.slot, err |-> e,
                  cleared |-> (s1 = NoErr)]}
           ELSE LET d == dlerror(o.slot) IN
                {[res |-> UnixLoadError(text), osHandle |-> o.handle,
                  mapped |-> o.mapped, slot |-> d.slot, err |-> e,
                  cleared |-> (s1 = NoErr)] :
                     text \in CStrFromPtr(d.ret)}
           : o \in dlopen(FileNameBuf(path), RTLD_LAZY, m, s1)}

\* Library::from_handle
FromHandleResult(raw) == Ok(raw)

(***************************************************************************)
(* Symbol resolution.                                                      *)
(***************************************************************************)
\* variant: only the trailing NUL is asserted
NameAsserts_TrailingOnly(name) == EndsWithNul(name)

\* the two assertions on the name in sym_opt
NameAsserts(name) == EndsWithNul(name) /\ ~HasNul(DropLast(name))

\* variant: the null test is inverted
WrapAddr_Inverted(addr) == IF addr # NULL THEN None ELSE Some(addr)

\* if result == null_mut() { None } else { Some(read(result)) }
WrapAddr(addr) == IF addr = NULL THEN None ELSE Some(addr)

\* the outcomes of self.sym_opt::<T>(name), size_of::<T>() = ts
SymOptOutcomes(h, name, ts, be, a, m, s, e) ==
    IF ts # PtrSize(a)
    THEN {[res |-> Panic("symbol result is not pointer sized!"),
           looked |-> FALSE, slot |-> s, err |-> e]}
    ELSE IF ~NameAsserts(name)
    THEN {[res |-> Panic(IF ~EndsWithNul(name) THEN "symbol name must end with NUL"
                         ELSE "symbol name mustn't contain NULs, except to terminate the string"),
           looked |-> FALSE, slot |-> s, err |-> e]}
    ELSE IF be = "windows"
    THEN {[res |-> WrapAddr(o.addr), looked |-> TRUE, slot |-> s, err |-> o.err] :
             o \in GetProcAddress(h, name, FALSE, m, e)}
    ELSE {[res |-> WrapAddr(o.addr), looked |-> TRUE, slot |-> o.slot, err |-> e] :
             o \in dlsym(h, name, m, s)}

\* variant: the trailing NUL is not stripped from the name
MissingSymbolMessage_Unstripped(name) ==
    <<"Symbol ">> \o FormatDebug(name) \o <<" missing from library">>

\* format!("Symbol {:?} missing from library", &name[..name.len()-1])
MissingSymbolMessage(name) ==
    <<"Symbol ">> \o FormatDebug(DropLast(name)) \o <<" missing from library">>

\* sym: sym_opt(name).ok_or_else(...)
SymResult(r, name) ==
    IF r.tag = "None" THEN Err("InvalidInput", MissingSymbolMessage(name))
    ELSE IF r.tag = "Some" THEN Ok(r.val)
    ELSE r

\* has_sym: sym_opt(name).is_some()
HasSymResult(r) == IF r.tag = "Panic" THEN r ELSE Bool(r.tag = "Some")

\* variant: the ordinal is looked up on every backend
OrdinalFunc_AllBackends(h, ordinal, be, m, e) ==
    GetProcAddress(h, ordinal, TRUE, m, e)

\* the address sym_opt_by_ordinal looks at
OrdinalFunc(h, ordinal, be, m, e) ==
    IF be = "windows" THEN GetProcAddress(h, ordinal, TRUE, m, e)
    ELSE {[addr |-> NULL, err |-> e]}

\* the outcomes of self.sym_opt_by_ordinal::<T>(ordinal)
SymOptByOrdinalOutcomes(h, ordinal, ts, be, a, m, e) ==
    IF ts # PtrSize(a)
    THEN {[res |-> Panic("symbol result is not pointer sized!"),
           looked |-> FALSE, err |-> e]}
    ELSE {[res |-> WrapAddr(o.addr), looked |-> (be = "windows"), err |-> o.err] :
             o \in OrdinalFunc(h, ordinal, be, m, e)}

\* format!("Symbol @{ordinal} missing from library")
MissingOrdinalMessage(ordinal) ==
    <<"Symbol @", ToString(ordinal), " missing from library">>

SymByOrdinalResult(r, ordinal) ==
    IF r.tag = "None" THEN Err("InvalidInput", MissingOrdinalMessage(ordinal))
    ELSE IF r.tag = "Some" THEN Ok(r.val)
    ELSE r

\* variant: dropping a handle unloads its library
DropLibrary_Unloads(m, h) == m \ ImagesOf(h, m)

\* Library is Copy and has no Drop: a copy going out of scope unmaps nothing
DropLibrary(m, h) == m

(***************************************************************************)
(* The program: operations called one after the other by one thread.       *)
(***************************************************************************)
TSizes == {4, 8}

Op(op, path, h, name, ordinal, ts, res, looked, cleared, osHandle) ==
    [op |-> op, path |-> path, handle |-> h, name |-> name, ordinal |-> ordinal,
     tsize |-> ts, res |-> res, looked |-> looked, cleared |-> cleared,
     osHandle |-> osHandle,
     prevLoadFailed |-> (lastOp.op = "load" /\ lastOp.res.tag = "Err")]

NoOp ==
    [op |-> "-", path |-> <<>>, handle |-> NULL, name |-> <<>>, ordinal |-> 0,
     tsize |-> 0, res |-> NoRes, looked |-> FALSE, cleared |-> FALSE,
     osHandle |-> NULL, prevLoadFailed |-> FALSE]

IdleThreads ==
    /\ pc = [t \in Threads |-> "idle"]
    /\ tpath = [t \in Threads |-> <<>>]
    /\ thandle = [t \in Threads |-> NULL]
    /\ tread = [t \in Threads |-> NoErr]
    /\ tresult = [t \in Threads |-> NoRes]

Init ==
    /\ backend \in Backends
    /\ arch \in Archs
    /\ mapped = {}
    /\ libs = {}
    /\ slot = NoErr
    /\ lastErr = ERROR_SUCCESS
    /\ lastOp = NoOp
    /\ symFirst = {}
    /\ halted = FALSE
    /\ IdleThreads

threadVars == <<pc, tpath, thandle, tread, tresult>>

Load(path) ==
    /\ ~halted
    /\ \E o \in LoadOutcomes(path, backend, arch, mapped, slot, lastErr) :
         /\ mapped' = o.mapped
         /\ slot' = o.slot
         /\ lastErr' = o.err
         /\ libs' = IF o.res.tag = "Ok" THEN libs \cup {o.res.val} ELSE libs
         /\ halted' = (o.res = Crash)
         /\ lastOp' = Op("load", path, NULL, <<>>, 0, 0, o.res, TRUE, o.cleared, o.osHandle)
    /\ UNCHANGED <<backend, arch, symFirst, threadVars>>

FromHandle(raw) ==
    /\ ~halted
    /\ LET r == FromHandleResult(raw) IN
         /\ libs' = IF r.tag = "Ok" THEN libs \cup {r.val} ELSE libs
         /\ lastOp' = Op("from_handle", <<>>, raw, <<>>, 0, 0, r, FALSE, FALSE, NULL)
    /\ UNCHANGED <<backend, arch, mapped, slot, lastErr, symFirst, halted, threadVars>>

SymOpt(h, name, ts) ==
    /\ ~halted
    /\ h \in libs
    /\ \E o \in SymOptOutcomes(h, name, ts, backend, arch, mapped, slot, lastErr) :
         /\ slot' = o.slot
         /\ lastErr' = o.err
         /\ halted' = (o.res.tag = "Panic")
         /\ lastOp' = Op("sym_opt", <<>>, h, name, 0, ts, o.res, o.looked, FALSE, NULL)
    /\ UNCHANGED <<backend, arch, mapped, libs, symFirst, threadVars>>

Sym(h, name, ts) ==
    /\ ~halted
    /\ h \in libs
    /\ \E o \in SymOptOutcomes(h, name, ts, backend, arch, mapped, slot, lastErr) :
         LET r == SymResult(o.res, name) IN
         /\ slot' = o.slot
         /\ lastErr' = o.err
         /\ halted' = (r.tag = "Panic")
         /\ symFirst' \in
              IF r.tag = "Ok" /\ ImagesOf(h, mapped) # {} /\ symFirst = {}
              THEN {symFirst, {[handle |-> h, name |-> name, addr |-> r.val, again |-> FALSE]}}
              ELSE {{IF r.tag = "Ok" /\ f.handle = h /\ f.name = name
                     THEN [f EXCEPT !.again = TRUE] ELSE f : f \in symFirst}}
         /\ lastOp' = Op("sym", <<>>, h, name, 0, ts, r, o.looked, FALSE, NULL)
    /\ UNCHANGED <<backend, arch, mapped, libs, threadVars>>

HasSym(h, name) ==
    /\ ~halted
    /\ h \in libs
    /\ \E o \in SymOptOutcomes(h, name, PtrSize(arch), backend, arch, mapped, slot, lastErr) :
         LET r == HasSymResult(o.res) IN
         /\ slot' = o.slot
         /\ lastErr' = o.err
         /\ halted' = (r.tag = "Panic")
         /\ lastOp' = Op("has_sym", <<>>, h, name, 0, PtrSize(arch), r, o.looked, FALSE, NULL)
    /\ UNCHANGED <<backend, arch, mapped, libs, symFirst, threadVars>>

SymOptByOrdinal(h, ordinal, ts) ==
    /\ ~halted
    /\ h \in libs
    /\ \E o \in SymOptByOrdinalOutcomes(h, ordinal, ts, backend, arch, mapped, lastErr) :
         /\ lastErr' = o.err
         /\ halted' = (o.res.tag = "Panic")
         /\ lastOp' = Op("sym_opt_by_ordinal", <<>>, h, <<>>, ordinal, ts, o.res,
                         o.looked, FALSE, NULL)
    /\ UNCHANGED <<backend, arch, mapped, libs, slot, symFirst, threadVars>>

SymByOrdinal(h, ordinal, ts) ==
    /\ ~halted
    /\ h \in libs
    /\ \E o \in SymOptByOrdinalOutcomes(h, ordinal, ts, backend, arch, mapped, lastErr) :
         LET r == SymByOrdinalResult(o.res, ordinal) IN
         /\ lastErr' = o.err
         /\ halted' = (r.tag = "Panic")
         /\ lastOp' = Op("sym_by_ordinal", <<>>, h, <<>>, ordinal, ts, r,
                         o.looked, FALSE, NULL)
    /\ UNCHANGED <<backend, arch, mapped, libs, slot, symFirst, threadVars>>

\* a copy of a Library value goes out of scope
DropCopy(h) ==
    /\ ~halted
    /\ h \in libs
    /\ libs' = libs \ {h}
    /\ mapped' = DropLibrary(mapped, h)
    /\ lastOp' = Op("drop", <<>>, h, <<>>, 0, 0, NoRes, FALSE, FALSE, NULL)
    /\ UNCHANGED <<backend, arch, slot, lastErr, symFirst, halted, threadVars>>

Next ==
    \/ \E path \in Paths : Load(path)
    \/ \E raw \in RawHandles : FromHandle(raw)
    \/ \E h \in libs, name \in Names, ts \in TSizes : SymOpt(h, name, ts)
    \/ \E h \in libs, name \in Names, ts \in TSizes : Sym(h, name, ts)
    \/ \E h \in libs, name \in Names : HasSym(h, name)
    \/ \E h \in libs, ordinal \in Ordinals, ts \in TSizes : SymOptByOrdinal(h, ordinal, ts)
    \/ \E h \in libs, ordinal \in Ordinals, ts \in TSizes : SymByOrdinal(h, ordinal, ts)
    \/ \E h \in libs : DropCopy(h)

Spec == Init /\ [][Next]_vars

(***************************************************************************)
(* Concurrent loads on the unix backend: each thread runs Library::load    *)
(* one loader call at a time, the dlerror slot being shared by all         *)
(* threads.                                                                *)
(***************************************************************************)
ConcPaths == {FileA, FileW, <<"M">>}

InitConc ==
    /\ backend = "unix"
    /\ arch = "x86_64"
    /\ mapped = {}
    /\ libs = {}
    /\ slot = NoErr
    /\ lastErr = ERROR_SUCCESS
    /\ lastOp = NoOp
    /\ symFirst = {}
    /\ halted = FALSE
    /\ IdleThreads

seqVars == <<backend, arch, lastErr, lastOp, symFirst>>

\* lines 41-42: build the file name, clear the error slot
LoadEnter(t, path) ==
    /\ ~halted
    /\ pc[t] = "idle"
    /\ slot' = ClearError(slot)
    /\ pc' = [pc EXCEPT ![t] = "cleared"]
    /\ tpath' = [tpath EXCEPT ![t] = path]
    /\ thandle' = [thandle EXCEPT ![t] = NULL]
    /\ tread' = [tread EXCEPT ![t] = NoErr]
    /\ tresult' = [tresult EXCEPT ![t] = NoRes]
    /\ UNCHANGED <<seqVars, mapped, libs, halted>>

\* line 43: dlopen(filename, RTLD_LAZY)
LoadDlopen(t) ==
    /\ ~halted
    /\ pc[t] = "cleared"
    /\ \E o \in dlopen(FileNameBuf(tpath[t]), RTLD_LAZY, mapped, slot) :
         /\ mapped' = o.mapped
         /\ slot' = o.slot
         /\ thandle' = [thandle EXCEPT ![t] = o.handle]
    /\ pc' = [pc EXCEPT ![t] = "opened"]
    /\ UNCHANGED <<seqVars, libs, halted, tpath, tread, tresult>>

\* lines 46-47: the handle is not null
LoadReturnOk(t) ==
    /\ ~halted
    /\ pc[t] = "opened"
    /\ thandle[t] # NULL
    /\ tresult' = [tresult EXCEPT ![t] = Ok(thandle[t])]
    /\ libs' = libs \cup {thandle[t]}
    /\ pc' = [pc EXCEPT ![t] = "idle"]
    /\ UNCHANGED <<seqVars, mapped, slot, halted, tpath, thandle, tread>>

\* lines 69-72: the handle is null, the error text is read from dlerror()
LoadReturnErr(t) ==
    /\ ~halted
    /\ pc[t] = "opened"
    /\ thandle[t] = NULL
    /\ LET d == dlerror(slot) IN
         /\ slot' = d.slot
         /\ tread' = [tread EXCEPT ![t] = d.ret]
         /\ \E text \in CStrFromPtr(d.ret) :
              /\ tresult' = [tresult EXCEPT ![t] = UnixLoadError(text)]
              /\ halted' = (UnixLoadError(text) = Crash)
    /\ pc' = [pc EXCEPT ![t] = "idle"]
    /\ UNCHANGED <<seqVars, mapped, libs, tpath, thandle>>

NextConc ==
    \/ \E t \in Threads, path \in ConcPaths : LoadEnter(t, path)
    \/ \E t \in Threads : LoadDlopen(t)
    \/ \E t \in Threads : LoadReturnOk(t)
    \/ \E t \in Threads : LoadReturnErr(t)

SpecConc == InitConc /\ [][NextConc]_vars

(***************************************************************************)
(* Properties.                                                             *)
(***************************************************************************)
\* the file the OS loader is asked for by load(path)
FileOf(path) == CStr(FileNameBuf(path))

IsLoad == lastOp.op = "load"

\* the call was made on a handle of a mapped library with a pointer-sized T
OnLoadedHandle == /\ ImagesOf(lastOp.handle, mapped) # {}
                  /\ lastOp.tsize = PtrSize(arch)

NamePresent == \E f \in ImagesOf(lastOp.handle, mapped) : CStr(lastOp.name) \in Exports(f)

C2_Claim ==
    (backend = "windows" /\ IsLoad /\ DiskKind(FileOf(lastOp.path)) = "otherwidth")
        => /\ lastOp.res.tag = "Err"
           /\ lastOp.res.msg =
                 BadExeFormatMessage(lastOp.path, OtherBits(PtrBits(arch)), PtrBits(arch))

\* C3 as stated: every Library value returned as Ok by load or by
\* from_handle, and every Library value held afterwards, is not null.
C3_Claim ==
    /\ (lastOp.op \in {"load", "from_handle"} /\ lastOp.res.tag = "Ok")
           => lastOp.res.val # NULL
    /\ NULL \notin libs

\* C4: on unix a load returns Ok exactly when its own dlopen returned a
\* handle, Ok carries that handle and no error text, a failure carries the
\* text of its own dlopen, and the error slot was empty when dlopen was
\* called, whatever an earlier call left in it.
C4_LoadDependsOnOwnDlopen ==
    (backend = "unix" /\ IsLoad)
        => /\ lastOp.cleared
           /\ (lastOp.res.tag = "Ok") <=> (lastOp.osHandle # NULL)
           /\ (lastOp.osHandle # NULL) <=> (DiskKind(FileOf(lastOp.path)) = "native")
           /\ lastOp.res.tag = "Ok" =>
                 (lastOp.res.val = lastOp.osHandle /\ lastOp.res.msg = <<>>)
           /\ lastOp.res.tag # "Ok" =>
                 lastOp.res = Err("Other", DlopenErrorText(FileOf(lastOp.path)))

C4_Witness ==
    /\ backend = "unix" /\ IsLoad
    /\ lastOp.prevLoadFailed
    /\ lastOp.res.tag = "Ok"

\* C5 as stated: on a loaded handle, for a well-formed name absent from the
\* library, sym_opt returns None and sym fails with InvalidInput and a
\* message that contains the name without its trailing NUL.
C5_Original ==
    (OnLoadedHandle /\ NameAsserts(lastOp.name) /\ ~NamePresent)
        => /\ lastOp.op = "sym_opt" => lastOp.res = None
           /\ lastOp.op = "sym" =>
                 /\ lastOp.res.tag = "Err"
                 /\ lastOp.res.kind = "InvalidInput"
                 /\ Contains(lastOp.res.msg, DropLast(lastOp.name))

NoEscapedChar(str) == \A i \in 1..Len(str) : str[i] \notin {"nl", "NUL"}

\* C5 amended: sym_opt returns None, and sym fails with InvalidInput and the
\* message "Symbol <q> missing from library", <q> being the name without its
\* trailing NUL in Rust's Debug form (quoted, special characters escaped);
\* the message contains the name itself when no character of it is escaped.
C5_Amended ==
    (OnLoadedHandle /\ NameAsserts(lastOp.name) /\ ~NamePresent)
        => /\ lastOp.op = "sym_opt" => lastOp.res = None
           /\ lastOp.op = "sym" =>
                 /\ lastOp.res.tag = "Err"
                 /\ lastOp.res.kind = "InvalidInput"
                 /\ lastOp.res.msg =
                       <<"Symbol ", "QUOTE">>
                         \o EscapeDebug(SubSeq(lastOp.name, 1, Len(lastOp.name) - 1))
                         \o <<"QUOTE", " missing from library">>
                 /\ NoEscapedChar(DropLast(lastOp.name)) =>
                       Contains(lastOp.res.msg, DropLast(lastOp.name))

C5_Witness ==
    /\ OnLoadedHandle /\ lastOp.op = "sym"
    /\ lastOp.name = <<"nl", "NUL">>
    /\ lastOp.res.tag = "Err"

\* C6: sym, sym_opt and has_sym called with a name that lacks the trailing
\* NUL (the empty name included) or has a NUL before the last unit panic
\* before the OS lookup is called and end the run; they return nothing.
C6_MalformedNamePanics ==
    (/\ lastOp.op \in {"sym", "sym_opt", "has_sym"}
     /\ (~EndsWithNul(lastOp.name) \/ HasNul(DropLast(lastOp.name))))
        => /\ lastOp.res.tag = "Panic"
           /\ ~lastOp.looked
           /\ halted

C6_Witness ==
    /\ lastOp.op = "has_sym"
    /\ EndsWithNul(lastOp.name) /\ HasNul(DropLast(lastOp.name))
    /\ lastOp.res.tag = "Panic"

\* C7: on unix, for every handle and every ordinal, no ordinal resolution
\* yields a value or calls the OS; with a pointer-sized T, sym_opt_by_ordinal
\* returns None and sym_by_ordinal fails with InvalidInput and a message
\* that gives the ordinal.
C7_UnixOrdinalsAlwaysMissing ==
    (backend = "unix" /\ lastOp.op \in {"sym_opt_by_ordinal", "sym_by_ordinal"})
        => /\ lastOp.res.tag \notin {"Some", "Ok"}
           /\ ~lastOp.looked
           /\ lastOp.tsize = PtrSize(arch) =>
                 /\ lastOp.op = "sym_opt_by_ordinal" => lastOp.res = None
                 /\ lastOp.op = "sym_by_ordinal" =>
                       /\ lastOp.res.tag = "Err"
                       /\ lastOp.res.kind = "InvalidInput"
                       /\ lastOp.res.msg =
                             <<"Symbol @", ToString(lastOp.ordinal), " missing from library">>

C7_Witness ==
    /\ backend = "unix" /\ lastOp.op = "sym_by_ordinal"
    /\ lastOp.ordinal = U16Max
    /\ ImagesOf(lastOp.handle, mapped) # {}
    /\ lastOp.res.tag = "Err"

\* C8: on a loaded handle, for a well-formed name present in the library,
\* sym_opt returns a non-null value, has_sym returns true, and sym returns
\* the address an earlier sym call with the same handle and name returned,
\* whatever was called in between.
C8_PresentNameResolves ==
    (OnLoadedHandle /\ NameAsserts(lastOp.name) /\ NamePresent)
        => /\ lastOp.op = "sym_opt" => (lastOp.res.tag = "Some" /\ lastOp.res.val # NULL)
           /\ lastOp.op = "has_sym" => lastOp.res.tag = "true"
           /\ lastOp.op = "sym" =>
                 /\ lastOp.res.tag = "Ok"
                 /\ \A f \in symFirst :
                       (f.handle = lastOp.handle /\ f.name = lastOp.name)
                           => f.addr = lastOp.res.val

C8_Witness ==
    /\ lastOp.op = "sym" /\ lastOp.res.tag = "Ok"
    /\ lastOp.prevLoadFailed
    /\ \E f \in symFirst :
          f.again /\ f.handle = lastOp.handle /\ f.name = lastOp.name

ResolveOps == {"sym", "sym_opt", "has_sym", "sym_by_ordinal", "sym_opt_by_ordinal"}

\* C9: in every step the set of mapped libraries only grows; a load that
\* fails maps nothing and produces no handle; a resolution operation changes
\* neither the mapped set nor the handles held; a handle copy going out of
\* scope unmaps nothing.
C9_NeverUnloads ==
    [][/\ mapped \subseteq mapped'
       /\ (lastOp'.op = "load" /\ lastOp'.res.tag # "Ok")
              => (mapped' = mapped /\ libs' = libs)
       /\ lastOp'.op \in ResolveOps => (mapped' = mapped /\ libs' = libs)]_vars

C9_Witness ==
    /\ lastOp.op = "drop"
    /\ mapped # {}
    /\ libs = {}

\* C10 as stated: a load whose dlopen failed reads from dlerror the text
\* its own dlopen produced, in every interleaving of concurrent loads.
C10_Claim ==
    \A t \in Threads :
        (pc[t] = "idle" /\ tresult[t] # NoRes /\ thandle[t] = NULL)
            => tread[t] = DlopenErrorText(FileOf(tpath[t]))

====
